---- MODULE Spec2Model ----
(***************************************************************************)
(* Model of server.js: the next-appointment proxy.                         *)
(*                                                                         *)
(* Time is counted in seconds since 00:00 UTC of calendar day 0.  A Date   *)
(* object is the instant it holds; ISO strings sent by the provider are    *)
(* JS values that Date parsing turns into an instant or into NaN.          *)
(* Each await of the handler is a separate step: GetNextAppointment runs   *)
(* lines 99-131 (up to the first upstream call), UpstreamReply runs lines  *)
(* 136-150 and then either the next call (122-131) or lines 152-166, and   *)
(* UpstreamFail runs the catch block.                                      *)
(***************************************************************************)
EXTENDS Integers, Sequences, FiniteSets, TLC

\* ---------------------------------------------------------------- bounds
NumReqs     == 2      \* request slots that may be in flight together
MaxArrivals == 3      \* GET /api/next-appointment requests in a run
MaxFlushes  == 1      \* POST /webhook/acuity requests in a run
TickLen     == 60     \* seconds that pass in one step of the clock
MaxElapsed  == 120    \* the clock stops this many seconds after the start
MaxSlots    == 3      \* slots in one provider reply
MaxShallow  == 1      \* beyond this day offset a scan runs without interruption
StartDay    == 7      \* calendar day (UTC) on which the run starts
GapAfter    == 1      \* days from the start to the daylight-saving change
FormatDays  == 6      \* days over which the formatter's calls are spread
EveningOfDay == 1800  \* second of the day (UTC) of an evening start: 17:30 in Edmonton the day before
StartOfDay  == 34200  \* second of the day (UTC) at which the run starts: 02:30 in Edmonton

\* ------------------------------------------------------ program constants
CACHE_TTL_SECONDS == 60
HorizonDays       == 30
Day               == 86400
Hour              == 3600
EdmontonBehind    == 25200     \* America/Edmonton standard time is UTC-7

VARIABLES proc,       \* the process: its two credentials and whether it listens
          now,        \* the clock
          serverTZ,   \* the time zone of the host process
          dstAt,      \* <<>> or <<instant of Edmonton's spring-forward change>>
          cache,      \* NodeCache: key -> <<>> or <<entry>>
          req,        \* per request slot: the handler's locals and position
          sent,       \* <<the response sent by the step just taken>>, or <<>>
          puts,       \* history: per key, the results stored since the last flush, in order,
                      \* each with the instant and the query of the request that stored it
          hook,       \* <<the webhook response sent by the step just taken>>, or <<>>
          arrivals,   \* number of next-appointment requests so far
          flushes,    \* number of webhook requests so far
          dayScan,    \* <<>> or <<one day's slots, sorted and scanned on their own>>
          asked,      \* history: once the cache was flushed, the keys asked for since the last flush
          formatted   \* <<>> or <<one call of prettyDateTime on its own and its outcome>>

vars == <<proc, now, serverTZ, dstAt, cache, req, sent, puts, hook, arrivals, flushes, dayScan,
         asked, formatted>>

Reqs == 1..NumReqs

\* ------------------------------------------------------------ time zones
UTCZone  == [behind |-> 0, dst |-> FALSE]
MST_TZ   == [behind |-> EdmontonBehind, dst |-> TRUE]

StartTime == StartDay * Day + StartOfDay

\* whether instant t lies at or after the zone's spring-forward change
Advanced(z, t) == z.dst /\ dstAt # <<>> /\ t >= dstAt[1]

\* local wall-clock reading of instant t in zone z
LocalTime(z, t) == t - z.behind + (IF Advanced(z, t) THEN Hour ELSE 0)

\* instant of the local wall-clock reading l in zone z; a reading skipped by
\* the spring-forward change is taken with the offset in force before it
UTC(z, l) ==
  LET s == l + z.behind
  IN  IF Advanced(z, s - Hour) THEN s - Hour ELSE s

\* d.setDate(d.getDate() + n): same local wall-clock time, n days later
setDate(t, n) == UTC(serverTZ, LocalTime(serverTZ, t) + n * Day)

\* d.toISOString().split('T')[0]: the UTC calendar day of the instant
toISODate(t) == t \div Day

\* d.toDateString(): the server-local calendar day of the instant
toDateString(t) == LocalTime(serverTZ, t) \div Day

\* weekday of a calendar day, Sunday = 0; calendar day 0 is a Monday
Weekday(day) == (day + 1) % 7

\* d.getDay()
getDay(t) == Weekday(toDateString(t))

\* -------------------------------------------------------------- JS values
\* slot.time as the provider sends it: an ISO-8601 string, some other text,
\* or nothing at all
Iso(t)  == [tag |-> "iso", t |-> t]
Garbage == [tag |-> "text", t |-> 0]
Missing == [tag |-> "undefined", t |-> 0]

\* !x is false
Truthy(x) == x.tag # "undefined"

\* new Date(x): <<instant>>, or <<>> for an Invalid Date (NaN)
NewDate(x) == IF x.tag = "iso" THEN <<x.t>> ELSE <<>>

\* a comparison that takes an Invalid Date for a later one
DateGtOrNaN(dt, t) == dt = <<>> \/ dt[1] > t

\* dt > now on a Date and an instant: false when dt is NaN
DateGt(dt, t) == dt # <<>> /\ dt[1] > t

\* ------------------------------------------------------- the slots of a day
\* (a, b) => new Date(a.time) - new Date(b.time); NaN counts as +0 in a sort
compareSlots(a, b) ==
  LET da == NewDate(a.time)
      db == NewDate(b.time)
  IN  IF da = <<>> \/ db = <<>> THEN 0 ELSE da[1] - db[1]

\* Array.prototype.sort promises an order only for a consistent comparator:
\* here, one whose ties are transitive
ConsistentOn(s) ==
  \A i, j, k \in 1..Len(s) :
    (compareSlots(s[i], s[j]) = 0 /\ compareSlots(s[j], s[k]) = 0)
      => compareSlots(s[i], s[k]) = 0

\* insertion of x into a sorted sequence, after the elements it ties with
RECURSIVE InsertSlot(_, _)
InsertSlot(s, x) ==
  IF s = <<>> THEN <<x>>
  ELSE IF compareSlots(s[Len(s)], x) > 0
       THEN Append(InsertSlot(SubSeq(s, 1, Len(s) - 1), x), s[Len(s)])
       ELSE Append(s, x)

\* the stable ascending sort of s
RECURSIVE StableSort(_)
StableSort(s) ==
  IF s = <<>> THEN <<>>
  ELSE InsertSlot(StableSort(SubSeq(s, 1, Len(s) - 1)), s[Len(s)])

\* every reordering of s
Reorderings(s) ==
  { [i \in 1..Len(s) |-> s[p[i]]] : p \in Permutations(1..Len(s)) }

\* the orders (resp.data || []).sort(...) may leave the array in: the stable
\* sort when the comparator is consistent, an implementation-defined order
\* otherwise
SortOutcomes(data) ==
  IF ConsistentOn(data) THEN {StableSort(data)} ELSE Reorderings(data)

\* a loop that takes the first slot with a time, without the test dt > now
RECURSIVE FirstTimed(_, _)
FirstTimed(slots, t) ==
  IF slots = <<>> THEN <<>>
  ELSE IF Truthy(slots[1].time) /\ NewDate(slots[1].time) # <<>>
       THEN <<[datetime |-> slots[1].time]>>
       ELSE FirstTimed(Tail(slots), t)

\* the for loop over the sorted slots: <<>> (null) or <<[datetime]>>
RECURSIVE FirstFuture(_, _)
FirstFuture(slots, t) ==
  IF slots = <<>> THEN <<>>
  ELSE IF Truthy(slots[1].time) /\ DateGt(NewDate(slots[1].time), t)
       THEN <<[datetime |-> slots[1].time]>>
       ELSE FirstFuture(Tail(slots), t)

\* ------------------------------------------------------------ the formatter
\* locales Intl.DateTimeFormat accepts; any other tag makes it throw
ValidLocales == {"en-US", "fr-CA"}

\* prettyDateTime throws a RangeError: the locale is no language tag, or the
\* Date handed to formatToParts is invalid
prettyThrows(isoString, locale) ==
  locale \notin ValidLocales \/ NewDate(isoString) = <<>>

\* prettyDateTime(isoString, locale) called at instant t, for a valid date
\* and locale.  A display string is <<kind, weekday, calendar day, time,
\* locale>>, the parts its text is made of.  The time is the hour (of 12) and
\* the minute, counted in minutes: formatToParts names the AM/PM part
\* dayPeriod, so obj.period is undefined and the text carries no AM or PM.
prettyDateTime(isoString, locale, t) ==
  LET d           == NewDate(isoString)[1]
      edm         == LocalTime(MST_TZ, d)            \* formatToParts, in MST_TZ
      timeStr     == ((edm % Day) \div 60) % (12 * 60)   \* obj.period is undefined
      dMST        == UTC(serverTZ, edm)
      nowMST      == UTC(serverTZ, LocalTime(MST_TZ, t))
      sameDay     == toDateString(dMST) = toDateString(nowMST)
      tomorrowMST == setDate(nowMST, 1)
      isTomorrow  == toDateString(dMST) = toDateString(tomorrowMST)
      weekStart   == setDate(nowMST, 1 - getDay(nowMST))
      weekEnd     == setDate(weekStart, 6)
      isThisWeek  == dMST >= weekStart /\ dMST <= weekEnd
      fullWeekday == Weekday(LocalTime(MST_TZ, dMST) \div Day)
  IN  IF sameDay THEN <<"Today: ", 0, 0, timeStr, locale>>
      ELSE IF isTomorrow THEN <<"Tomorrow: ", 0, 0, timeStr, locale>>
      ELSE IF isThisWeek THEN <<"{fullWeekday}: ", fullWeekday, 0, timeStr, locale>>
      ELSE <<"{weekday}, {month} {day} - ", Weekday(edm \div Day), edm \div Day,
             timeStr, locale>>

\* ------------------------------------------------------------- the queries
Or(a, b) == IF a # "" THEN a ELSE b

Query(type, cal, loc) ==
  [appointmentTypeID |-> type, calendarID |-> cal, locale |-> loc]

\* req.query of the requests of a run ("" is an absent or empty parameter)
Queries ==
  { Query("", "", "en-US"), Query("X", "", "en-US"), Query("", "X", "fr-CA"),
    Query("", "Y", "en-US"), Query("X", "Y", "en_US") }

\* a handler without the check of line 103
NoneSpecifiedUnchecked(q) == FALSE

\* !appointmentTypeID && !calendarID
NoneSpecified(q) == q.appointmentTypeID = "" /\ q.calendarID = ""

cacheKey(q) == <<"avail:", Or(q.appointmentTypeID, q.calendarID)>>

CacheKeys == { cacheKey(q) : q \in Queries }

\* a payload whose found is whether the scan ran to its end without failing
payloadFoundAlways(q, nextSlot, t) ==
  IF nextSlot # <<>>
  THEN [found       |-> TRUE,
        display     |-> prettyDateTime(nextSlot[1].datetime, q.locale, t),
        datetime    |-> nextSlot[1].datetime,
        appointment |-> [type |-> Or(q.appointmentTypeID, q.calendarID),
                         isAvailable |-> TRUE]]
  ELSE [found |-> TRUE, display |-> <<"No availability in next 30 days">>]

\* the payload of lines 152-163, built at instant t
payload(q, nextSlot, t) ==
  IF nextSlot # <<>>
  THEN [found       |-> TRUE,
        display     |-> prettyDateTime(nextSlot[1].datetime, q.locale, t),
        datetime    |-> nextSlot[1].datetime,
        appointment |-> [type |-> Or(q.appointmentTypeID, q.calendarID),
                         isAvailable |-> TRUE]]
  ELSE [found |-> FALSE, display |-> <<"No availability in next 30 days">>]

NoneSpecifiedBody ==
  [found |-> FALSE, display |-> <<"No appointment type or calendar specified">>]

ErrorBody == [error |-> "Failed to fetch availability"]

\* ---------------------------------------------------------------- the cache
\* An entry is [v, t, at]: the value, the instant it expires at, and (for the
\* record only) the instant it was stored at.
EmptyCache == [k \in CacheKeys |-> <<>>]

\* an entry is dropped by a lookup once its expiry instant is behind the clock
Expired(e, t) == e.t < t

\* cache.get(key) at instant t: the value found (<<>>: undefined) and the
\* cache afterwards, an expired entry being deleted by the lookup
cacheGet(c, key, t) ==
  IF c[key] # <<>> /\ ~Expired(c[key][1], t)
  THEN [value |-> <<c[key][1].v>>, at |-> <<c[key][1].at>>, cache |-> c]
  ELSE [value |-> <<>>, at |-> <<>>, cache |-> [c EXCEPT ![key] = <<>>]]

\* cache.set with the ttl taken for milliseconds where seconds are counted
cacheSetMillis(c, key, value, ttl, t) ==
  [c EXCEPT ![key] = <<[v |-> value, t |-> t + ttl * 1000, at |-> t]>>]

\* a cache.set that leaves an entry already present as it is
cacheSetIfAbsent(c, key, value, ttl, t) ==
  IF c[key] # <<>> THEN c
  ELSE [c EXCEPT ![key] = <<[v |-> value, t |-> t + ttl, at |-> t]>>]

\* cache.set(key, value, ttl) at instant t
cacheSet(c, key, value, ttl, t) ==
  [c EXCEPT ![key] = <<[v |-> value, t |-> t + ttl, at |-> t]>>]

\* cache.flushStats() called in place of cache.flushAll()
flushStats(c) == c

\* cache.flushAll()
flushAll(c) == [k \in DOMAIN c |-> <<>>]

\* -------------------------------------------------------------- the provider
SlotTimes == { StartTime + 10, StartTime + 2 * Day }

SlotValues == { Iso(t) : t \in SlotTimes } \cup { Garbage, Missing }

\* resp.data: up to n slots, no slot twice, in any order
Replies(n) ==
  { s \in UNION { [1..m -> { [time |-> v] : v \in SlotValues }] : m \in 0..n } :
      \A i, j \in 1..Len(s) : i # j => s[i] # s[j] }

\* ------------------------------------------------------- the request handler
\* The handler of a request that is not being handled
Idle ==
  [pc |-> "idle", query |-> Query("", "", ""), today |-> 0,
   maxSearchDate |-> 0, currentDate |-> 0, dates |-> <<>>, callAt |-> 0]

\* res.status(s).json(b) by handler h at instant t; the other fields record
\* what the handler did on the way: the cache entry it served, the slot its
\* scan chose, the last reply it read, its cache reads and writes, whether an
\* upstream call of its failed
Response(h, s, b, t, hitAt, slot, data, gets, sets, failed) ==
  [status |-> s, body |-> b, query |-> h.query, arrived |-> h.today,
   at |-> t, hitAt |-> hitAt, dates |-> h.dates, slot |-> slot, data |-> data,
   gets |-> gets, sets |-> sets, upstreamFailed |-> failed]

\* The while loop's test (line 122) for handler h with nextSlot as given and
\* `data` the reply read last, and what follows it: either the next upstream
\* call (lines 123-131), at which the handler waits, or lines 152-166.  The
\* result is the handler's state, its response if it sends one, the cache,
\* and what it stored.
loopTest(h, nextSlot, data, c, t) ==
  IF h.currentDate <= h.maxSearchDate /\ nextSlot = <<>>
  THEN [req   |-> [h EXCEPT !.pc = "awaiting",
                            !.dates = Append(@, toISODate(h.currentDate)),
                            !.callAt = t],
        res   |-> <<>>,
        cache |-> c,
        put   |-> <<>>]
  ELSE IF nextSlot # <<>> /\ prettyThrows(nextSlot[1].datetime, h.query.locale)
  THEN [req   |-> Idle,
        res   |-> <<Response(h, 500, ErrorBody, t, <<>>, nextSlot, data,
                             1, 0, FALSE)>>,
        cache |-> c,
        put   |-> <<>>]
  ELSE [req   |-> Idle,
        res   |-> <<Response(h, 200, payload(h.query, nextSlot, t), t, <<>>,
                             nextSlot, data, 1, 1, FALSE)>>,
        cache |-> cacheSet(c, cacheKey(h.query), payload(h.query, nextSlot, t),
                           CACHE_TTL_SECONDS, t),
        put   |-> <<[v |-> payload(h.query, nextSlot, t), at |-> t,
                     query |-> h.query]>>]

\* if (cached && cached.found)
isHitFound(value) == value # <<>> /\ value[1].found

\* if (cached): the lookup found a value (a stored result is an object, and
\* every object is truthy)
isHit(value) == value # <<>>

\* lines 99-131: from the arrival of the request to its first await
handlerStart(q, c, t) ==
  LET h == [Idle EXCEPT !.query = q, !.today = t,
                        !.maxSearchDate = setDate(t, HorizonDays),
                        !.currentDate = t]
  IN  IF NoneSpecified(q)
      THEN [req   |-> Idle,
            res   |-> <<Response(h, 200, NoneSpecifiedBody, t, <<>>, <<>>, <<>>,
                                 0, 0, FALSE)>>,
            cache |-> c,
            put   |-> <<>>]
      ELSE LET cached == cacheGet(c, cacheKey(q), t)
           IN  IF isHit(cached.value)
               THEN [req   |-> Idle,
                     res   |-> <<Response(h, 200, cached.value[1], t, cached.at,
                                          <<>>, <<>>, 1, 0, FALSE)>>,
                     cache |-> cached.cache,
                     put   |-> <<>>]
               ELSE loopTest(h, <<>>, <<>>, cached.cache, t)

\* lines 136-150 on the reply to the call in flight, then the loop's test
handlerResume(h, data, sorted, c, t) ==
  loopTest([h EXCEPT !.currentDate = setDate(@, 1)], FirstFuture(sorted, t),
           data, c, t)

\* a catch block that also stores a "nothing found" result under the key
handlerCatchStoring(h, c, t) ==
  [req   |-> Idle,
   res   |-> <<Response(h, 500, ErrorBody, t, <<>>, <<>>, <<>>, 1, 1, TRUE)>>,
   cache |-> cacheSet(c, cacheKey(h.query), payload(h.query, <<>>, t),
                      CACHE_TTL_SECONDS, t),
   put   |-> <<>>]

\* the catch block, on a rejected upstream call
handlerCatch(h, c, t) ==
  [req   |-> Idle,
   res   |-> <<Response(h, 500, ErrorBody, t, <<>>, <<>>, <<>>, 1, 0, TRUE)>>,
   cache |-> c,
   put   |-> <<>>]

\* the state after a handler step of request slot i with outcome o
Becomes(i, o) ==
  /\ req'   = [req EXCEPT ![i] = o.req]
  /\ sent'  = o.res
  /\ cache' = o.cache
  /\ puts'  = IF o.put = <<>> THEN puts
              ELSE [puts EXCEPT ![cacheKey(o.res[1].query)] = Append(@, o.put[1])]

\* ------------------------------------------------------------------ actions
\* a startup check that exits only when both credentials are missing
missingBoth(user, key) == user = "" /\ key = ""

\* !ACUITY_USER || !ACUITY_KEY ("" is an unset or empty variable)
missingCredentials(user, key) == user = "" \/ key = ""

\* The module has been loaded at instant t: with a credential missing the
\* process has exited at line 32, otherwise it has registered its routes and
\* listens.
Loaded(t) ==
  /\ \E user, key \in {"", "set"} :
       proc = [ACUITY_USER |-> user, ACUITY_KEY |-> key,
               listening |-> ~missingCredentials(user, key)]
  /\ now = t
  /\ serverTZ \in {UTCZone, MST_TZ}
  /\ dstAt = <<(StartDay + GapAfter) * Day + EdmontonBehind + 2 * Hour>>
  /\ cache = EmptyCache
  /\ req = [i \in Reqs |-> Idle]
  /\ sent = <<>>
  /\ puts = [k \in CacheKeys |-> <<>>]
  /\ hook = <<>>
  /\ arrivals = 0
  /\ flushes = 0
  /\ dayScan = <<>>
  /\ asked = {}
  /\ formatted = <<>>

Init == Loaded(StartTime)

\* day offset of the upstream call a scanning handler waits for
Offset(h) == Len(h.dates) - 1

\* the request slots whose scan is beyond day offset MaxShallow
Deep == { i \in Reqs : req[i].pc = "awaiting" /\ Offset(req[i]) > MaxShallow }

\* GET /api/next-appointment arrives with query q and runs to its first await
GetNextAppointment(i, q) ==
  /\ proc.listening
  /\ Deep = {}
  /\ req[i].pc = "idle"
  /\ arrivals < MaxArrivals
  /\ arrivals' = arrivals + 1
  /\ Becomes(i, handlerStart(q, cache, now))
  /\ hook' = <<>>
  /\ asked' = IF flushes = 0 \/ NoneSpecified(q) THEN asked ELSE asked \cup {cacheKey(q)}
  /\ UNCHANGED <<proc, now, serverTZ, dstAt, flushes, dayScan, formatted>>

\* the provider answers the call in flight with `data`; the handler sorts it
\* (leaving it in the order `sorted`) and runs to its next await or to its end
UpstreamReply(i, data, sorted) ==
  /\ Deep \subseteq {i}
  /\ req[i].pc = "awaiting"
  /\ sorted \in SortOutcomes(data)
  /\ Becomes(i, handlerResume(req[i], data, sorted, cache, now))
  /\ hook' = <<>>
  /\ UNCHANGED <<proc, now, serverTZ, dstAt, arrivals, flushes, dayScan, asked, formatted>>

\* the call in flight is rejected: a non-2xx status or a network failure
UpstreamFail(i) ==
  /\ Deep \subseteq {i}
  /\ req[i].pc = "awaiting"
  /\ Becomes(i, handlerCatch(req[i], cache, now))
  /\ hook' = <<>>
  /\ UNCHANGED <<proc, now, serverTZ, dstAt, arrivals, flushes, dayScan, asked, formatted>>

\* POST /webhook/acuity
Webhook ==
  /\ proc.listening
  /\ Deep = {}
  /\ flushes < MaxFlushes
  /\ flushes' = flushes + 1
  /\ cache' = flushAll(cache)
  /\ hook' = <<[status |-> 200, body |-> "ok",
                dropped |-> { <<k, cache[k][1].t - now>> :
                                k \in {x \in CacheKeys : cache[x] # <<>>} }]>>
  /\ puts' = [k \in CacheKeys |-> <<>>]
  /\ sent' = <<>>
  /\ asked' = {}
  /\ UNCHANGED <<proc, now, serverTZ, dstAt, req, arrivals, dayScan, formatted>>

\* GET /health
Health ==
  /\ proc.listening
  /\ Deep = {}
  /\ hook' = <<[status |-> 200, body |-> [status |-> "ok", timestamp |-> now]]>>
  /\ sent' = <<>>
  /\ UNCHANGED <<proc, now, serverTZ, dstAt, cache, req, puts, arrivals, flushes, dayScan,
                 asked, formatted>>

\* time passes
Tick ==
  /\ Deep = {}
  /\ now + TickLen <= StartTime + MaxElapsed
  /\ now' = now + TickLen
  /\ sent' = <<>>
  /\ hook' = <<>>
  /\ UNCHANGED <<proc, serverTZ, dstAt, cache, req, puts, arrivals, flushes, dayScan, asked, formatted>>

\* one day's slots sorted and scanned at instant t, as lines 136-146 do
ScanDay(data, sorted, t) ==
  /\ proc.listening
  /\ sorted \in SortOutcomes(data)
  /\ dayScan' = <<[data |-> data, sorted |-> sorted, now |-> t,
                   nextSlot |-> FirstFuture(sorted, t)]>>
  /\ UNCHANGED <<proc, now, serverTZ, dstAt, cache, req, sent, puts, hook, arrivals, flushes,
                 asked, formatted>>

\* the instants the clock takes
Instants == { StartTime + n * TickLen : n \in 0..(MaxElapsed \div TickLen) }

\* the queries with a locale the formatter accepts that share the key avail:X
SameKeyQueries ==
  { q \in Queries : cacheKey(q) = <<"avail:", "X">> /\ q.locale \in ValidLocales }

\* The server with one next-appointment request handled at a time.
Next ==
  \/ \E q \in Queries : GetNextAppointment(1, q)
  \/ \E data \in Replies(1) : \E sorted \in SortOutcomes(data) :
       UpstreamReply(1, data, sorted)
  \/ UpstreamFail(1)
  \/ Webhook
  \/ Tick

Spec == Init /\ [][Next]_vars

\* The server with up to NumReqs requests for one cache key in flight
\* together, on a host that runs in UTC.
InitConcurrent == Init /\ serverTZ = UTCZone

NextConcurrent ==
  \/ \E i \in Reqs, q \in SameKeyQueries : GetNextAppointment(i, q)
  \/ \E i \in Reqs, data \in Replies(1) : \E sorted \in SortOutcomes(data) :
       UpstreamReply(i, data, sorted)
  \/ \E i \in Reqs : UpstreamFail(i)
  \/ Webhook
  \/ Tick

SpecConcurrent == InitConcurrent /\ [][NextConcurrent]_vars

\* Lines 136-146 on their own: every reply of up to MaxSlots slots, scanned
\* at every instant of the clock.
NextDay ==
  \E data \in Replies(MaxSlots), t \in Instants : \E sorted \in SortOutcomes(data) :
    ScanDay(data, sorted, t)

SpecDay == Init /\ [][NextDay]_vars

\* The server from its start, every route served, one next-appointment
\* request handled at a time.
NextRoutes ==
  \/ \E q \in Queries : GetNextAppointment(1, q)
  \/ \E data \in Replies(1) : \E sorted \in SortOutcomes(data) :
       UpstreamReply(1, data, sorted)
  \/ UpstreamFail(1)
  \/ Webhook
  \/ Health
  \/ Tick

SpecRoutes == Init /\ [][NextRoutes]_vars

\* The server started in the evening (Edmonton time) two days before the
\* daylight-saving change, the clock standing still.
EveningTime == StartDay * Day + EveningOfDay

InitEvening == Loaded(EveningTime)

NextEvening ==
  \/ \E q \in Queries : GetNextAppointment(1, q)
  \/ \E data \in Replies(1) : \E sorted \in SortOutcomes(data) :
       UpstreamReply(1, data, sorted)
  \/ UpstreamFail(1)
  \/ Webhook

SpecEvening == InitEvening /\ [][NextEvening]_vars

\* prettyDateTime(isoString, locale) called on its own at instant t: it throws
\* or returns a display string
Format(isoString, locale, t) ==
  /\ proc.listening
  /\ formatted' = <<[isoString |-> isoString, locale |-> locale, now |-> t,
                     threw |-> prettyThrows(isoString, locale),
                     display |-> IF prettyThrows(isoString, locale) THEN <<>>
                                 ELSE prettyDateTime(isoString, locale, t)]>>
  /\ UNCHANGED <<proc, now, serverTZ, dstAt, cache, req, sent, puts, hook, arrivals, flushes,
                 dayScan, asked>>

\* the instants prettyDateTime is called at: the same time on successive days
FormatNows == { StartTime + j * Day : j \in 0..FormatDays }

\* days from the call to the timestamp formatted
FormatOffsets == {-1, 0, 1, 2, 3, 6, 7, 40}

\* the timestamps formatted at instant t: on those days, at the time of the
\* call and 13 hours later; and a text that is no timestamp
FormatInputs(t) ==
  { Iso(t + k * Day + e * Hour) : k \in FormatOffsets, e \in {0, 13} } \cup {Garbage}

\* the locales asked for
Locales == { q.locale : q \in Queries }

\* Lines 42-94 on their own.
NextFormat ==
  \E t \in FormatNows, locale \in Locales : \E isoString \in FormatInputs(t) :
    Format(isoString, locale, t)

SpecFormat == Init /\ [][NextFormat]_vars

\* ------------------------------------------------------------------- claims
\* both identifying parameters absent or empty
BothAbsent(q) == q.appointmentTypeID = "" /\ q.calendarID = ""

\* the query of the request that arrives in this step
ArrivingQueries ==
  { sent'[n].query : n \in DOMAIN sent' } \cup
  { req'[i].query : i \in { j \in Reqs : req[j].pc = "idle" /\ req'[j].pc = "awaiting" } }

\* C1: a request with neither appointmentTypeID nor calendarID is answered
\* found=false at once; it issues no upstream call, reads and writes no cache
\* entry, and the cache is the same after it as before.
C1_NoneSpecifiedShortCircuit ==
  [][ /\ \A i \in Reqs : req'[i].pc = "awaiting" => ~BothAbsent(req'[i].query)
      /\ (sent' # <<>> /\ BothAbsent(sent'[1].query)) =>
           /\ sent'[1].status = 200
           /\ sent'[1].body.found = FALSE
           /\ sent'[1].dates = <<>>
           /\ sent'[1].gets = 0
           /\ sent'[1].sets = 0
           /\ cache' = cache ]_vars

\* a request without either parameter has been answered while the cache held
\* an entry
C1_Witness ==
  /\ sent # <<>>
  /\ BothAbsent(sent[1].query)
  /\ \E k \in CacheKeys : cache[k] # <<>>

\* C2: a response served from the cache comes from an entry stored at most 60
\* seconds before the lookup; a request answered without a scan found an
\* entry for its key that is no older than that, so that once more than 60
\* seconds have passed since the entry was stored the handler scans anew.
C2_NeverServedPastTTL ==
  [][ /\ (sent' # <<>> /\ sent'[1].hitAt # <<>>) =>
           sent'[1].at - sent'[1].hitAt[1] <= 60
      /\ (arrivals' # arrivals /\ sent' # <<>> /\ ~BothAbsent(sent'[1].query)) =>
           LET e == cache[cacheKey(sent'[1].query)]
           IN  e # <<>> /\ now - e[1].at <= 60 /\ sent'[1].hitAt = <<e[1].at>> ]_vars

\* a handler is scanning for a key whose result was stored more than 60
\* seconds before the request arrived
C2_Witness ==
  \E i \in Reqs :
    /\ req[i].pc = "awaiting"
    /\ LET stored == puts[cacheKey(req[i].query)]
       IN  stored # <<>> /\ req[i].today - stored[Len(stored)].at > 60

\* C3 as stated: a request that arrives within 60 seconds of ANY store of a
\* result under its key, with no flush in between, is answered with that
\* result and issues no upstream call.
C3_AnyStoreServed ==
  [][ arrivals' # arrivals =>
        \A q \in ArrivingQueries : \A n \in DOMAIN puts[cacheKey(q)] :
          LET p == puts[cacheKey(q)][n]
          IN  (~BothAbsent(q) /\ now - p.at <= 60) =>
                /\ sent' # <<>>
                /\ sent'[1].body = p.v
                /\ sent'[1].dates = <<>> ]_vars

\* C3 as amended: a request that arrives within 60 seconds of the LAST store
\* of a result under its key, with no flush in between, is answered with
\* that result (found=false or found=true) and issues no upstream call.
C3_LastStoreServed ==
  [][ arrivals' # arrivals =>
        \A q \in ArrivingQueries :
          LET stored == puts[cacheKey(q)]
              last   == stored[Len(stored)]
          IN  (~BothAbsent(q) /\ stored # <<>> /\ now - last.at <= 60) =>
                /\ sent' # <<>>
                /\ sent'[1].status = 200
                /\ sent'[1].body = last.v
                /\ sent'[1].dates = <<>> ]_vars

\* a found=false result is served from the cache some time after it was stored
C3_Witness ==
  /\ sent # <<>>
  /\ sent[1].hitAt # <<>>
  /\ sent[1].body.found = FALSE
  /\ sent[1].at > sent[1].hitAt[1]

\* the slots a reply holds
SlotsOf(data) == { data[n] : n \in DOMAIN data }

\* the instants of the slots of a reply that lie strictly after instant t
FutureTimes(data, t) ==
  { NewDate(x.time)[1] : x \in { y \in SlotsOf(data) : DateGt(NewDate(y.time), t) } }

\* C4: a reply to the call for day offset k that holds a strictly-future slot
\* ends the scan with a slot of that reply after exactly k+1 upstream calls;
\* a reply to the call for an offset k < 30 that holds none is followed by
\* the call for offset k+1, so that a scan whose first slot is on day k, for
\* any k in 0..30, gets there.
C4_ScanReachesDayK ==
  [][ \A i \in Reqs :
        ( /\ req[i].pc = "awaiting"
          /\ req'[i] # req[i]
          /\ ~(sent' # <<>> /\ sent'[1].upstreamFailed) ) =>
        LET k == Offset(req[i])
        IN  IF sent' # <<>> /\ sent'[1].slot # <<>>
            THEN /\ [time |-> sent'[1].slot[1].datetime] \in SlotsOf(sent'[1].data)
                 /\ DateGt(NewDate(sent'[1].slot[1].datetime), now)
                 /\ Len(sent'[1].dates) = k + 1
            ELSE k < 30 => (req'[i].pc = "awaiting" /\ Offset(req'[i]) = k + 1) ]_vars

\* C5: a scan that no reply gave a strictly-future slot ends after exactly 31
\* upstream calls with found=false, and no scan issues more than 31 calls.
C5_ScanExhaustsHorizon ==
  /\ \A i \in Reqs : Len(req[i].dates) <= 31
  /\ ( /\ sent # <<>>
       /\ ~BothAbsent(sent[1].query)
       /\ sent[1].hitAt = <<>>
       /\ ~sent[1].upstreamFailed
       /\ sent[1].slot = <<>> ) =>
     ( /\ Len(sent[1].dates) = 31
       /\ sent[1].status = 200
       /\ sent[1].body.found = FALSE )

\* C6: the slot selected from a day's reply lies strictly after the current
\* instant and is the earliest of the reply's slots that do, whatever the
\* order of the reply.
C6_EarliestFutureSlot ==
  dayScan # <<>> =>
    LET d == dayScan[1]
    IN  d.nextSlot # <<>> =>
          /\ DateGt(NewDate(d.nextSlot[1].datetime), d.now)
          /\ \A t \in FutureTimes(d.data, d.now) :
               NewDate(d.nextSlot[1].datetime)[1] <= t

\* C7: no request is still unanswered 8 seconds after it arrived (by then
\* the watchdog has answered it with a 504).
C7_WatchdogAnswers ==
  \A i \in Reqs : req[i].pc = "awaiting" => now - req[i].today < 8

\* C8: no upstream call is still awaited more than 7 seconds after it was
\* issued (by then it has failed with an upstream error), so that no request
\* waits on the provider for ever.
C8_UpstreamCallTimesOut ==
  \A i \in Reqs : req[i].pc = "awaiting" => now - req[i].callAt <= 7

\* C9: when an upstream call of a scan fails, the request is answered with
\* the generic 500 error, its handler issues no further upstream call, and
\* the cache is left as it was before the failure.
C9_UpstreamFailure ==
  [][ (sent' # <<>> /\ sent'[1].upstreamFailed) =>
        /\ sent'[1].status = 500
        /\ sent'[1].body = [error |-> "Failed to fetch availability"]
        /\ sent'[1].sets = 0
        /\ cache' = cache
        /\ \A i \in Reqs : req'[i] # req[i] =>
             /\ req[i].pc = "awaiting"
             /\ req'[i].pc = "idle"
             /\ sent'[1].dates = req[i].dates ]_vars

\* an upstream call other than the first has failed while the cache held an
\* entry
C9_Witness ==
  /\ sent # <<>>
  /\ sent[1].upstreamFailed
  /\ Len(sent[1].dates) >= 2
  /\ \E k \in CacheKeys : cache[k] # <<>>

C11_FreshAfterFlush ==
  [][ \A q \in ArrivingQueries :
        ( /\ arrivals' # arrivals
          /\ flushes > 0
          /\ ~BothAbsent(q)
          /\ cacheKey(q) \notin asked ) =>
        /\ \E i \in Reqs : req[i].pc = "idle" /\ req'[i].pc = "awaiting" /\ req'[i].query = q
        /\ sent' = <<>> ]_vars

\* calendar days in America/Edmonton from the date of instant t to the date
\* of instant d
daysDiff(d, t) == (LocalTime(MST_TZ, d) \div Day) - (LocalTime(MST_TZ, t) \div Day)

\* minute of the day, in America/Edmonton, of instant d: a time with AM or PM
MinuteOfDay(d) == (LocalTime(MST_TZ, d) % Day) \div 60

\* C12: the formatter returns "Today at {time}" exactly when daysDiff = 0,
\* "Tomorrow at {time}" exactly when daysDiff = 1, "{FullWeekdayName} at
\* {time}" exactly when 2 <= daysDiff <= 6, and "{Mon} {Day} at {time}", with
\* no weekday, in every other case; {time} tells AM from PM.
C12_FormatterTiers ==
  (formatted # <<>> /\ ~formatted[1].threw) =>
    LET d     == NewDate(formatted[1].isoString)[1]
        dd    == daysDiff(d, formatted[1].now)
        edmDay == LocalTime(MST_TZ, d) \div Day
    IN  formatted[1].display =
          IF dd = 0 THEN <<"Today at ", 0, 0, MinuteOfDay(d), formatted[1].locale>>
          ELSE IF dd = 1 THEN <<"Tomorrow at ", 0, 0, MinuteOfDay(d), formatted[1].locale>>
          ELSE IF dd >= 2 /\ dd <= 6
               THEN <<"{FullWeekdayName} at ", Weekday(edmDay), 0, MinuteOfDay(d),
                      formatted[1].locale>>
          ELSE <<"{Mon} {Day} at ", 0, edmDay, MinuteOfDay(d), formatted[1].locale>>

\* C13: whatever the interleaving of requests for one key, the entry under a
\* key is absent or is exactly the result stored last under it (since the
\* last flush), and a request that stores leaves its own result, whole, under
\* its key; requests for the same uncached key each run their own scan.
C13_LastWriterWins ==
  /\ \A k \in CacheKeys :
       cache[k] # <<>> =>
         /\ puts[k] # <<>>
         /\ cache[k][1].v = puts[k][Len(puts[k])].v
         /\ cache[k][1].at = puts[k][Len(puts[k])].at
  /\ (sent # <<>> /\ sent[1].sets = 1) =>
       /\ cache[cacheKey(sent[1].query)] # <<>>
       /\ cache[cacheKey(sent[1].query)][1].v = sent[1].body

\* two requests for one key were scanning together, both have finished, they
\* stored different results, and the cache holds the second
C13_Witness ==
  /\ \A i \in Reqs : req[i].pc = "idle"
  /\ \E k \in CacheKeys :
       /\ Len(puts[k]) = 2
       /\ puts[k][1].v # puts[k][2].v
       /\ puts[k][1].at = puts[k][2].at
       /\ cache[k] # <<>>
       /\ cache[k][1].v = puts[k][2].v
  /\ sent # <<>> /\ sent[1].sets = 1 /\ sent[1].arrived = sent[1].at

WellShaped(v, type) ==
  IF v.found
  THEN /\ DOMAIN v = {"found", "display", "datetime", "appointment"}
       /\ NewDate(v.datetime) # <<>>
       /\ v.appointment = [type |-> type, isAvailable |-> TRUE]
  ELSE DOMAIN v = {"found", "display"}

\* C15: every result returned with status 200 or held in the cache is either
\* found=true with a datetime and an appointment, available and of the type
\* appointmentTypeID if present, else calendarID, or found=false with neither.
C15_ResultShapes ==
  /\ (sent # <<>> /\ sent[1].status = 200) =>
       WellShaped(sent[1].body, Or(sent[1].query.appointmentTypeID, sent[1].query.calendarID))
  /\ \A k \in CacheKeys : cache[k] # <<>> => WellShaped(cache[k][1].v, k[2])

\* a found result has been served from the cache while the cache held a
\* not-found result under another key
C15_Witness ==
  /\ sent # <<>> /\ sent[1].status = 200 /\ sent[1].hitAt # <<>> /\ sent[1].body.found
  /\ \E k \in CacheKeys : cache[k] # <<>> /\ ~cache[k][1].v.found

\* C16: in a run started without one of the two credentials no request of
\* any route is handled and no upstream call is issued: no response is sent,
\* no handler moves and the cache is not touched, however much time passes.
C16_NoStartWithoutCredentials ==
  [][ (proc.ACUITY_USER = "" \/ proc.ACUITY_KEY = "") =>
        /\ ~proc.listening
        /\ sent' = <<>> /\ hook' = <<>>
        /\ req' = req
        /\ cache' = cache
        /\ arrivals' = arrivals /\ flushes' = flushes ]_vars

\* the process was started with the key but without the user id, and time
\* has passed
C16_Witness ==
  /\ proc.ACUITY_USER = "" /\ proc.ACUITY_KEY # ""
  /\ ~proc.listening
  /\ now > StartTime

\* the dates asked of the provider by a scan begun at instant `today` are the
\* server-local calendar day of `today` and the days that follow it, in order
LocalDays(dates, today) ==
  \A n \in DOMAIN dates : dates[n] = toDateString(today) + (n - 1)

\* C17: the date sent to the provider at day offset k of a scan is the
\* server-local calendar date of the scan's start plus k days, so that the
\* dates of a scan are consecutive days from the server-local today, none
\* twice and none skipped.
C17_ServerLocalDates ==
  /\ \A i \in Reqs : req[i].pc = "awaiting" => LocalDays(req[i].dates, req[i].today)
  /\ sent # <<>> => LocalDays(sent[1].dates, sent[1].arrived)

\* C18: a response served from the cache was stored by a request with the
\* same appointmentTypeID, the same calendarID and the same locale as the
\* request it answers.
C18_SameQueryShares ==
  [][ (sent' # <<>> /\ sent'[1].hitAt # <<>>) =>
        LET stored == puts[cacheKey(sent'[1].query)]
        IN  /\ stored # <<>>
            /\ stored[Len(stored)].query = sent'[1].query ]_vars

\* C19, as claimed: every found=true response, scanned or served from the
\* cache, carries a datetime strictly after the instant it is sent at.
C19_DatetimeAfterSend ==
  (sent # <<>> /\ sent[1].status = 200 /\ sent[1].body.found) =>
    DateGt(NewDate(sent[1].body.datetime), sent[1].at)

\* C19, amended: a found=true response that comes from a scan carries a
\* datetime strictly after the instant it is sent at; one served from the
\* cache carries a datetime strictly after the instant it was stored at,
\* which is at most 60 seconds before it is sent.
C19_DatetimeAfterScan ==
  (sent # <<>> /\ sent[1].status = 200 /\ sent[1].body.found) =>
    IF sent[1].hitAt = <<>>
    THEN DateGt(NewDate(sent[1].body.datetime), sent[1].at)
    ELSE /\ DateGt(NewDate(sent[1].body.datetime), sent[1].hitAt[1])
         /\ sent[1].at - sent[1].hitAt[1] <= 60

\* a found result has been served from the cache some time after it was
\* stored, by when its slot had started
C19_Witness ==
  /\ sent # <<>> /\ sent[1].status = 200 /\ sent[1].body.found
  /\ sent[1].hitAt # <<>>
  /\ sent[1].at > sent[1].hitAt[1]
  /\ ~DateGt(NewDate(sent[1].body.datetime), sent[1].at)

\* C20: the slot selected from a day's reply has a time that parses; a reply
\* that holds a strictly-future slot yields a slot, whatever slots without a
\* time or with an unparseable one it holds besides; and the slot whose
\* datetime the handler formats has a time that parses.
C20_MalformedSlotsSkipped ==
  /\ dayScan # <<>> =>
       /\ dayScan[1].nextSlot # <<>> =>
            /\ [time |-> dayScan[1].nextSlot[1].datetime] \in SlotsOf(dayScan[1].data)
            /\ NewDate(dayScan[1].nextSlot[1].datetime) # <<>>
       /\ FutureTimes(dayScan[1].data, dayScan[1].now) # {} => dayScan[1].nextSlot # <<>>
  /\ (sent # <<>> /\ sent[1].slot # <<>>) => NewDate(sent[1].slot[1].datetime) # <<>>

\* a reply of three slots was left by the sort with the slot without a time
\* first and the slot with an unparseable one second, and the third was
\* selected
C20_Witness ==
  /\ dayScan # <<>>
  /\ Len(dayScan[1].sorted) = 3
  /\ dayScan[1].sorted[1].time = Missing
  /\ dayScan[1].sorted[2].time = Garbage
  /\ dayScan[1].nextSlot = <<[datetime |-> dayScan[1].sorted[3].time]>>

====
